---- MODULE Spec2Model ----
(***************************************************************************)
(* Model of authentication/models.py: UserManager.create_user,            *)
(* UserManager.create_superuser and User._generate_jwt_token, together    *)
(* with the table behind the User model (unique username, unique email).  *)
(*                                                                         *)
(* Python strings are sequences of one-character strings.  Python's None  *)
(* is the sentinel None below, which is no string over the alphabet used. *)
(* A primary key of 0 stands for pk = None (the object was never saved);  *)
(* the database assigns keys from 1.                                       *)
(***************************************************************************)
EXTENDS Integers, Sequences, FiniteSets, TLC

VARIABLES calls, rows, secret, zone, issued

vars == <<calls, rows, secret, zone, issued>>

(***************************************************************************)
(* Bounds                                                                  *)
(***************************************************************************)
\* number of create_user / create_superuser calls made against the store
MaxCalls == 2

\* number of those calls made while tokens are being issued (SpecToken)
MaxTokenCalls == 1

CallIds == 1..MaxCalls

(***************************************************************************)
(* Strings                                                                 *)
(***************************************************************************)
None == <<"None">>

UpperChars == <<"A","B","C","D","E","F","G","H","I","J","K","L","M",
                "N","O","P","Q","R","S","T","U","V","W","X","Y","Z">>

LowerChars == <<"a","b","c","d","e","f","g","h","i","j","k","l","m",
                "n","o","p","q","r","s","t","u","v","w","x","y","z">>

LowerMap ==
    [c \in {UpperChars[i] : i \in 1..Len(UpperChars)} |->
        LowerChars[CHOOSE i \in 1..Len(UpperChars) : UpperChars[i] = c]]

\* str.lower() on one character
LowerChar(c) == IF c \in DOMAIN LowerMap THEN LowerMap[c] ELSE c

\* str.lower()
StrLower(s) == [i \in 1..Len(s) |-> LowerChar(s[i])]

\* str.strip(): drop leading and trailing blanks
StrStrip(s) ==
    LET keep == {i \in 1..Len(s) : s[i] # " "}
    IN  IF keep = {} THEN <<>>
        ELSE LET lo == CHOOSE i \in keep : \A j \in keep : i <= j
                 hi == CHOOSE i \in keep : \A j \in keep : i >= j
             IN  SubSeq(s, lo, hi)

normalize_email_Identity(email) == IF email = None THEN <<>> ELSE email

\* BaseUserManager.normalize_email: lower-case what follows the LAST "@";
\* a value without "@" is returned as it was given
normalize_email(email) ==
    LET e0 == IF email = None THEN <<>> ELSE email
        s  == StrStrip(e0)
        at == {i \in 1..Len(s) : s[i] = "@"}
    IN  IF at = {} THEN e0
        ELSE LET k == CHOOSE i \in at : \A j \in at : i >= j
             IN  SubSeq(s, 1, k - 1) \o <<"@">> \o StrLower(SubSeq(s, k + 1, Len(s)))

(***************************************************************************)
(* Password hashing (django.contrib.auth.hashers.make_password)            *)
(***************************************************************************)
\* get_random_string(): every call draws a fresh salt (or random suffix),
\* here one per caller
SaltChars == <<"1","2","3","4","5","6","7","8","9">>

Salts(p) == {<<"s", SaltChars[p]>>}

\* the digest of a salted password: an injective image of (raw, salt)
Digest(raw, salt) == <<"H(">> \o raw \o <<",">> \o salt \o <<")">>

make_password_Plain(raw, salt) == raw

\* make_password(raw) with the drawn salt: None gives an unusable password
\* "!" + random characters, anything else "algorithm$salt$digest"
make_password(raw, salt) ==
    IF raw = None THEN <<"!">> \o salt
    ELSE <<"pbkdf2_sha256$">> \o salt \o <<"$">> \o Digest(raw, salt)

(***************************************************************************)
(* Inputs                                                                  *)
(***************************************************************************)
Str_alice == <<"a","l","i","c","e">>
Str_bob   == <<"b","o","b">>
Str_pw    == <<"p","w">>

\* "User@EXAMPLE.com", "user@example.com", "user@EXAMPLE.com"
Email_UserUP == <<"U","s","e","r","@","E","X","A","M","P","L","E",".","c","o","m">>
Email_userlo == <<"u","s","e","r","@","e","x","a","m","p","l","e",".","c","o","m">>
Email_userUP == <<"u","s","e","r","@","E","X","A","M","P","L","E",".","c","o","m">>

Usernames == {None, <<>>, Str_alice, Str_bob}
Emails    == {None, <<>>, Email_UserUP, Email_userlo, Email_userUP}
Passwords == {None, Str_pw}

NoCreds == [username |-> None, email |-> None, password |-> None]

\* the number of required fields a credentials dict leaves out or empty
MissingCount(c) ==
    (IF c.username \in {None, <<>>} THEN 1 ELSE 0)
    + (IF c.email \in {None, <<>>} THEN 1 ELSE 0)
    + (IF c.password = None THEN 1 ELSE 0)

\* the credentials dicts callers pass: complete ones, ones with a single
\* field missing or empty, and the one with nothing in it
Credentials ==
    {c \in [username : Usernames, email : Emails, password : Passwords] :
        MissingCount(c) <= 1 \/ c = NoCreds}

(***************************************************************************)
(* The User model                                                          *)
(***************************************************************************)
\* self.model(username=..., email=...): field defaults of class User
NewUser(username, email) ==
    [pk |-> 0, username |-> username, email |-> email, password |-> <<>>,
     is_active |-> FALSE, is_staff |-> FALSE, is_superuser |-> FALSE]

NoUser == NewUser(None, None)

\* the key the table gives the next inserted row
NextPk == Cardinality(rows) + 1

\* one call: where it stands (idle, insert, elevate, done), what was passed,
\* the User object it holds, what it returned, and (seen) the calls that
\* had already returned when it began
IdleCall == [pc |-> "idle", kind |-> "none", creds |-> NoCreds,
             user |-> NoUser, result |-> "none", seen |-> {}]

\* call ids are invocation numbers: they are handed out in the order in
\* which the calls begin
IsNextCall(p) ==
    /\ calls[p].pc = "idle"
    /\ \A q \in CallIds : q < p => calls[q].pc # "idle"

(***************************************************************************)
(* UserManager.create_user, up to the save                                 *)
(***************************************************************************)
create_user(p, kind, c, salt) ==
    LET base == [IdleCall EXCEPT !.kind = kind, !.creds = c,
                                 !.seen = {q \in CallIds : calls[q].pc = "done"}]
    IN  IF c.username = None
        THEN calls' = [calls EXCEPT ![p] =
                 [base EXCEPT !.pc = "done", !.result = "MissingUsername"]]
        ELSE IF c.email = None
        THEN calls' = [calls EXCEPT ![p] =
                 [base EXCEPT !.pc = "done", !.result = "MissingEmail"]]
        ELSE calls' = [calls EXCEPT ![p] =
                 [base EXCEPT !.pc = "insert",
                     !.user = [NewUser(c.username, normalize_email(c.email))
                                  EXCEPT !.password = make_password(c.password, salt)]]]

\* a caller invokes User.objects.create_user(credentials)
CreateUserCall(p) ==
    /\ IsNextCall(p)
    /\ \E c \in Credentials, salt \in Salts(p) : create_user(p, "user", c, salt)
    /\ UNCHANGED <<rows, secret, zone, issued>>

\* a caller invokes User.objects.create_superuser(credentials)
CreateSuperuserCall(p) ==
    /\ IsNextCall(p)
    /\ \E c \in Credentials, salt \in Salts(p) :
          IF c.password = None
          THEN calls' = [calls EXCEPT ![p] =
                   [IdleCall EXCEPT !.kind = "super", !.creds = c,
                        !.seen = {q \in CallIds : calls[q].pc = "done"},
                        !.pc = "done", !.result = "MissingPassword"]]
          ELSE create_user(p, "super", c, salt)
    /\ UNCHANGED <<rows, secret, zone, issued>>

(***************************************************************************)
(* The table: username and email are declared unique=True                  *)
(***************************************************************************)
UniqueViolations_NoEmail(u) ==
    {e \in {"DuplicateUsername"} : \E r \in rows : r.pk # u.pk /\ r.username = u.username}

UniqueViolations_NoUsername(u) ==
    {e \in {"DuplicateEmail"} : \E r \in rows : r.pk # u.pk /\ r.email = u.email}

\* the unique constraints that writing u would violate (IntegrityError)
UniqueViolations(u) ==
    {e \in {"DuplicateUsername"} : \E r \in rows : r.pk # u.pk /\ r.username = u.username}
    \cup
    {e \in {"DuplicateEmail"} : \E r \in rows : r.pk # u.pk /\ r.email = u.email}

(***************************************************************************)
(* user.save() of create_user: INSERT under the two unique constraints     *)
(***************************************************************************)
InsertUser_Dirty(p) ==
    /\ calls[p].pc = "insert"
    /\ LET u     == calls[p].user
           saved == [u EXCEPT !.pk = NextPk]
       IN  IF UniqueViolations(u) # {}
           THEN /\ \E err \in UniqueViolations(u) :
                     calls' = [calls EXCEPT ![p].pc = "done", ![p].result = err,
                                            ![p].user = saved]
                /\ rows' = rows \cup {saved}
           ELSE /\ rows' = rows \cup {saved}
                /\ calls' = [calls EXCEPT
                      ![p].user = saved,
                      ![p].pc = IF calls[p].kind = "super" THEN "elevate" ELSE "done",
                      ![p].result = IF calls[p].kind = "super" THEN "none" ELSE "ok"]
    /\ UNCHANGED <<secret, zone, issued>>

\* the database reports one of the violated constraints and writes nothing;
\* without a violation the row is written and gets its key
InsertUser(p) ==
    /\ calls[p].pc = "insert"
    /\ LET u == calls[p].user
       IN  IF UniqueViolations(u) # {}
           THEN /\ \E err \in UniqueViolations(u) :
                     calls' = [calls EXCEPT ![p].pc = "done", ![p].result = err]
                /\ rows' = rows
           ELSE LET saved == [u EXCEPT !.pk = NextPk]
                IN  /\ rows' = rows \cup {saved}
                    /\ calls' = [calls EXCEPT
                          ![p].user = saved,
                          ![p].pc = IF calls[p].kind = "super" THEN "elevate" ELSE "done",
                          ![p].result = IF calls[p].kind = "super" THEN "none" ELSE "ok"]
    /\ UNCHANGED <<secret, zone, issued>>

(***************************************************************************)
(* create_superuser after create_user returned: set both flags, save()     *)
(***************************************************************************)
ElevateSuperuser_SuperOnly(p) ==
    /\ calls[p].pc = "elevate"
    /\ LET u == [calls[p].user EXCEPT !.is_superuser = TRUE]
       IN  /\ rows' = {r \in rows : r.pk # u.pk} \cup {u}
           /\ calls' = [calls EXCEPT ![p].user = u, ![p].pc = "done", ![p].result = "ok"]
    /\ UNCHANGED <<secret, zone, issued>>

ElevateSuperuser_NoSave(p) ==
    /\ calls[p].pc = "elevate"
    /\ LET u == [calls[p].user EXCEPT !.is_superuser = TRUE, !.is_staff = TRUE]
       IN  /\ rows' = rows
           /\ calls' = [calls EXCEPT ![p].user = u, ![p].pc = "done", ![p].result = "ok"]
    /\ UNCHANGED <<secret, zone, issued>>

\* the second save() is an UPDATE of the row with the object's key; it
\* writes both flags in one statement
ElevateSuperuser(p) ==
    /\ calls[p].pc = "elevate"
    /\ LET u == [calls[p].user EXCEPT !.is_superuser = TRUE, !.is_staff = TRUE]
       IN  /\ rows' = {r \in rows : r.pk # u.pk} \cup {u}
           /\ calls' = [calls EXCEPT ![p].user = u, ![p].pc = "done", ![p].result = "ok"]
    /\ UNCHANGED <<secret, zone, issued>>

(***************************************************************************)
(* Local time (time.localtime as configured by the process time zone)      *)
(***************************************************************************)
\* UTC, and America/New_York with its two changes of 2024:
\* 2024-03-10 07:00:00Z to UTC-4 and 2024-11-03 06:00:00Z back to UTC-5
Zones ==
    { [name |-> "UTC", base |-> 0, changes |-> <<>>],
      [name |-> "America/New_York", base |-> 0 - 18000,
       changes |-> << [at |-> 1710054000, off |-> 0 - 14400],
                      [at |-> 1730613600, off |-> 0 - 18000] >>] }

\* instants at which a token is requested (Unix seconds):
\* 2024-03-01 17:00:00Z, 2024-03-21 05:46:40Z, 2024-09-22 10:13:20Z
Times == {1709312400, 1711000000, 1727000000}

\* the sub-second part of the clock reading, in microseconds
Micros == {0, 500000}

\* the UTC offset in force at instant u
utcoffset(z, u) ==
    LET past == {i \in 1..Len(z.changes) : z.changes[i].at <= u}
    IN  IF past = {} THEN z.base
        ELSE z.changes[CHOOSE i \in past : \A j \in past : i >= j].off

\* time.localtime(u), as seconds since 1970-01-01 00:00:00 on the wall clock
local(z, u) == u + utcoffset(z, u)

\* datetime.now(): the naive wall-clock reading at instant T
datetime_now(z, T, us) == [t |-> local(z, T), us |-> us]

\* timedelta(days=60), in seconds
timedelta_60_days == 60 * 24 * 3600

\* datetime.__add__ on a naive datetime: wall-clock arithmetic
datetime_add(dt, seconds) == [dt EXCEPT !.t = dt.t + seconds]

max_fold_seconds == 24 * 3600

\* datetime._mktime for fold = 0: solve t = local(u) for u
mktime(z, t) ==
    LET a  == local(z, t) - t
        u1 == t - a
        t1 == local(z, u1)
        b  == IF t1 = t THEN local(z, u1 - max_fold_seconds) - (u1 - max_fold_seconds)
              ELSE t1 - u1
        u2 == t - b
        t2 == local(z, u2)
    IN  IF t1 = t /\ a = b THEN u1
        ELSE IF t2 = t THEN u2
        ELSE IF t1 = t THEN u1
        ELSE IF u1 >= u2 THEN u1 ELSE u2

\* int(dt.timestamp()): the instant of a naive local datetime, truncated
int_timestamp(z, dt) == mktime(z, dt.t)

(***************************************************************************)
(* JSON Web Tokens (jwt.encode / jwt.decode with HS256)                    *)
(***************************************************************************)
\* the HMAC-SHA256 signature: an injective image of (key, payload)
HS256(key, payload) == <<"HS256", key, payload.id, payload.exp>>

jwt_encode(payload, key) ==
    [alg |-> "HS256", payload |-> payload, signature |-> HS256(key, payload)]

InvalidSignature == [id |-> 0 - 1, exp |-> 0 - 1]

\* jwt.decode(token, key): the payload when the signature verifies
jwt_decode(token, key) ==
    IF token.signature = HS256(key, token.payload) THEN token.payload
    ELSE InvalidSignature

NoToken ==
    [pk |-> 0, at |-> 0, us |-> 0,
     token |-> [alg |-> "none", payload |-> [id |-> 0, exp |-> 0],
                signature |-> <<"none", "", 0, 0>>]]

\* User._generate_jwt_token for the account row a, called at instant T
_generate_jwt_token(a, T, us) ==
    LET dt == datetime_add(datetime_now(zone, T, us), timedelta_60_days)
    IN  jwt_encode([id |-> a.pk, exp |-> int_timestamp(zone, dt)], secret)

IssueToken_Login(a, T, us) ==
    /\ issued' = [pk |-> a.pk, at |-> T, us |-> us,
                  token |-> _generate_jwt_token(a, T, us)]
    /\ rows' = (rows \ {a}) \cup {[a EXCEPT !.is_active = TRUE]}
    /\ UNCHANGED <<calls, secret, zone>>

\* a holder of account a reads a.token at instant T
IssueToken(a, T, us) ==
    /\ issued' = [pk |-> a.pk, at |-> T, us |-> us,
                  token |-> _generate_jwt_token(a, T, us)]
    /\ UNCHANGED <<calls, rows, secret, zone>>

(***************************************************************************)
(* Specifications                                                          *)
(***************************************************************************)
UTC == CHOOSE z \in Zones : z.name = "UTC"

InitStore ==
    /\ calls = [p \in CallIds |-> IdleCall]
    /\ rows = {}
    /\ secret = "SECRET_KEY"
    /\ issued = NoToken

\* account creation; no token is requested, so the time zone plays no part
Init == InitStore /\ zone = UTC

Next ==
    \E p \in CallIds :
        \/ CreateUserCall(p)
        \/ CreateSuperuserCall(p)
        \/ InsertUser(p)
        \/ ElevateSuperuser(p)

Spec == Init /\ [][Next]_vars

\* account creation interleaved with token issuance, in any time zone
TokenCallIds == {p \in CallIds : p <= MaxTokenCalls}

InitToken == InitStore /\ zone \in Zones

NextToken ==
    \/ \E p \in TokenCallIds : CreateUserCall(p)
    \/ \E p \in TokenCallIds : CreateSuperuserCall(p)
    \/ \E p \in TokenCallIds : InsertUser(p)
    \/ \E p \in TokenCallIds : ElevateSuperuser(p)
    \/ \E a \in rows, T \in Times, us \in Micros : IssueToken(a, T, us)

SpecToken == InitToken /\ [][NextToken]_vars

(***************************************************************************)
(* Properties                                                              *)
(***************************************************************************)
\* normalize_email, tabulated over the emails that are passed in or stored
NormalFormOf ==
    [e \in Emails \cup {normalize_email(x) : x \in Emails} |-> normalize_email(e)]

NormalForm(e) == NormalFormOf[e]

\* a required credential that is present and not empty
Present(v) == v # None /\ v # <<>>

Finished(p) == calls[p].pc = "done"

Succeeded(p) == calls[p].pc = "done" /\ calls[p].result = "ok"

\* no account other than the one call p wrote holds p's username or p's
\* normalized email
HoldsAlone(p) ==
    \A r \in rows :
        (r.username = calls[p].creds.username
            \/ r.email = NormalForm(calls[p].creds.email))
        => r.pk = calls[p].user.pk

\* calls p and q were in progress at the same time
Concurrent(p, q) == p # q /\ p \notin calls[q].seen /\ q \notin calls[p].seen

\* C1: in every reachable state of the store no two persisted accounts
\* share a key, a username or a normalized email.
C1_UniqueAccounts ==
    \A r1, r2 \in rows :
        r1 # r2 => /\ r1.pk # r2.pk
                   /\ r1.username # r2.username
                   /\ NormalForm(r1.email) # NormalForm(r2.email)

\* two accounts are persisted, one by create_user and one by create_superuser
C1_Witness ==
    \E p, q \in CallIds :
        /\ Succeeded(p) /\ calls[p].kind = "user"
        /\ Succeeded(q) /\ calls[q].kind = "super"
        /\ Cardinality(rows) = 2

\* C2: of two concurrent create_user calls with the same username and
\* valid emails that differ after normalization, neither competing with an
\* account of a third call, exactly one succeeds and persists an account
\* and the other fails with DuplicateUsername.
C2_ConcurrentSameUsername ==
    \A p, q \in CallIds :
        ( /\ Concurrent(p, q)
          /\ Finished(p) /\ Finished(q)
          /\ calls[p].kind = "user" /\ calls[q].kind = "user"
          /\ Present(calls[p].creds.username)
          /\ calls[p].creds.username = calls[q].creds.username
          /\ Present(calls[p].creds.email) /\ Present(calls[q].creds.email)
          /\ NormalForm(calls[p].creds.email) # NormalForm(calls[q].creds.email)
          /\ \A r \in rows :
                (r.username = calls[p].creds.username
                    \/ r.email = NormalForm(calls[p].creds.email)
                    \/ r.email = NormalForm(calls[q].creds.email))
                => r.pk \in {calls[p].user.pk, calls[q].user.pk} )
        => /\ \/ Succeeded(p) /\ calls[q].result = "DuplicateUsername"
              \/ Succeeded(q) /\ calls[p].result = "DuplicateUsername"
           /\ Cardinality({r \in rows : r.username = calls[p].creds.username}) = 1

\* two overlapping calls with one username have both returned
C2_Witness ==
    \E p, q \in CallIds :
        /\ Concurrent(p, q)
        /\ calls[p].kind = "user" /\ calls[q].kind = "user"
        /\ calls[p].creds.username = Str_alice /\ calls[q].creds.username = Str_alice
        /\ calls[p].creds.email = Email_userlo /\ calls[q].creds.email = Email_UserUP
        /\ Succeeded(q) /\ calls[p].result = "DuplicateUsername"

\* C3 as stated: once an account with email User@EXAMPLE.com exists, a
\* later create_user with a username nobody holds and email
\* user@example.com fails with DuplicateEmail and persists nothing.
C3_Original ==
    \A p, q \in CallIds :
        ( /\ p \in calls[q].seen /\ Succeeded(p)
          /\ calls[p].creds.email = Email_UserUP
          /\ Present(calls[p].creds.username)
          /\ Finished(q) /\ calls[q].kind = "user"
          /\ calls[q].creds.email = Email_userlo
          /\ Present(calls[q].creds.username)
          /\ \A r \in rows : r.username = calls[q].creds.username
                                => r.pk = calls[q].user.pk )
        => calls[q].result = "DuplicateEmail" /\ calls[q].user.pk = 0

\* C3 amended: once an account with email user@EXAMPLE.com exists, a later
\* create_user with a username nobody holds and email user@example.com
\* fails with DuplicateEmail and persists nothing: the domain part alone is
\* case-folded, so the two differ in nothing else.
C3_DomainCaseCollision ==
    \A p, q \in CallIds :
        ( /\ p \in calls[q].seen /\ Succeeded(p)
          /\ calls[p].creds.email = Email_userUP
          /\ Finished(q) /\ calls[q].kind = "user"
          /\ calls[q].creds.email = Email_userlo
          /\ calls[q].creds.username # None
          /\ \A r \in rows : r.username = calls[q].creds.username
                                => r.pk = calls[q].user.pk )
        => /\ calls[q].result = "DuplicateEmail" /\ calls[q].user.pk = 0
           /\ Cardinality({r \in rows : NormalForm(r.email) = Email_userlo}) = 1

\* the later call with the lower-case domain has been refused
C3_Witness ==
    \E p, q \in CallIds :
        /\ p \in calls[q].seen /\ Succeeded(p)
        /\ calls[p].creds.email = Email_userUP
        /\ calls[p].creds.username = Str_alice
        /\ calls[q].kind = "user"
        /\ calls[q].creds.email = Email_userlo
        /\ calls[q].creds.username = Str_bob
        /\ calls[q].result = "DuplicateEmail"

\* C4: a create_user call whose username is absent or empty fails with
\* MissingUsername; one with a username whose email is absent or empty
\* fails with MissingEmail.
C4_MissingFields ==
    \A p \in CallIds :
        (Finished(p) /\ calls[p].kind = "user")
        => /\ ~Present(calls[p].creds.username)
                => calls[p].result = "MissingUsername"
           /\ (Present(calls[p].creds.username) /\ ~Present(calls[p].creds.email))
                => calls[p].result = "MissingEmail"

\* C5: create_superuser without a password fails with MissingPassword and
\* writes nothing; with a password and valid credentials that no other
\* account holds it succeeds, and the account returned and the account
\* persisted both have is_superuser and is_staff set.
C5_Superuser ==
    \A p \in CallIds :
        (Finished(p) /\ calls[p].kind = "super")
        => /\ calls[p].creds.password = None
                => calls[p].result = "MissingPassword" /\ calls[p].user.pk = 0
           /\ ( /\ calls[p].creds.password # None
                /\ Present(calls[p].creds.username)
                /\ Present(calls[p].creds.email)
                /\ HoldsAlone(p) )
                => /\ calls[p].result = "ok"
                   /\ calls[p].user.is_superuser /\ calls[p].user.is_staff
                   /\ \E r \in rows : /\ r.pk = calls[p].user.pk
                                      /\ r.is_superuser /\ r.is_staff

\* one create_superuser was refused for its password, another succeeded
C5_Witness ==
    \E p, q \in CallIds :
        /\ calls[p].kind = "super" /\ calls[p].result = "MissingPassword"
        /\ calls[q].kind = "super" /\ Succeeded(q)
        /\ Present(calls[q].creds.username) /\ Present(calls[q].creds.email)

\* C6: a create_user call with valid credentials whose username and
\* normalized email no other account holds succeeds; the account it
\* returns is the persisted one, is neither active, staff nor superuser,
\* and its password hash is neither empty nor the plaintext.
C6_CreateAccount ==
    \A p \in CallIds :
        ( /\ Finished(p) /\ calls[p].kind = "user"
          /\ Present(calls[p].creds.username)
          /\ Present(calls[p].creds.email)
          /\ calls[p].creds.password # None
          /\ HoldsAlone(p) )
        => /\ calls[p].result = "ok"
           /\ calls[p].user.pk # 0
           /\ calls[p].user \in rows
           /\ calls[p].user.username = calls[p].creds.username
           /\ calls[p].user.email = NormalForm(calls[p].creds.email)
           /\ ~calls[p].user.is_active
           /\ ~calls[p].user.is_staff
           /\ ~calls[p].user.is_superuser
           /\ calls[p].user.password # <<>>
           /\ calls[p].user.password # calls[p].creds.password

\* a valid create_user has returned its account
C6_Witness ==
    \E p \in CallIds :
        /\ Succeeded(p) /\ calls[p].kind = "user"
        /\ calls[p].creds.username = Str_bob
        /\ calls[p].creds.email = Email_UserUP
        /\ calls[p].creds.password = Str_pw

\* C7: the token issued for an account at instant T decodes, under the
\* signing secret, to exactly id = the account's key and
\* exp = T + 5184000.
C7_TokenClaims ==
    issued # NoToken
    => jwt_decode(issued.token, secret)
          = [id |-> issued.pk, exp |-> issued.at + 5184000]

\* C8: in every state of the store, the one between the two writes of
\* create_superuser included, an account with is_superuser set has
\* is_staff set.
C8_SuperuserIsStaff ==
    \A r \in rows : r.is_superuser => r.is_staff

\* one superuser is persisted while another create_superuser stands between
\* its two writes
C8_Witness ==
    /\ \E r \in rows : r.is_superuser
    /\ \E p \in CallIds :
          /\ calls[p].pc = "elevate"
          /\ \E r \in rows : r.pk = calls[p].user.pk /\ ~r.is_superuser

\* C9: a step that issues a token changes no account record, no call in
\* progress and not the signing secret.
C9_IssueTokenFrame ==
    [][issued' # issued => (rows' = rows /\ secret' = secret /\ calls' = calls)]_vars

\* a token has been issued for an account that create_superuser has
\* inserted and not yet elevated
C9_Witness ==
    /\ issued # NoToken
    /\ \E p \in CallIds : calls[p].pc = "elevate" /\ calls[p].user.pk = issued.pk

\* C10: the step on which a create_user or create_superuser call fails
\* leaves the persisted accounts as they were, and the failed call has
\* written no account at any earlier step.
C10_FailureWritesNothing ==
    [][\A p \in CallIds :
          (calls[p].pc # "done" /\ calls'[p].pc = "done" /\ calls'[p].result # "ok")
          => /\ rows' = rows
             /\ calls'[p].user.pk = 0]_vars

\* a create_superuser call has failed on a duplicate while an account exists
C10_Witness ==
    \E p \in CallIds :
        /\ calls[p].kind = "super"
        /\ calls[p].result \in {"DuplicateUsername", "DuplicateEmail"}
        /\ rows # {}

====
